---- MODULE Spec2Model ----
(***************************************************************************)
(* A model of the two programs of the repository:                          *)
(*                                                                         *)
(*   p2.cpp  a large number kept as a linked list of uint64_t chunks, with *)
(*           operator+, operator-, print and main             (Spec)       *)
(*   p1.cpp  a round-robin scheduler on a circular linked list (SpecSched) *)
(*                                                                         *)
(* and of the Miller-Rabin engine the specification describes (SpecMR).    *)
(*                                                                         *)
(* A uint64_t does not fit the model checker's integers, so every number   *)
(* of p2.cpp is a decimal numeral: the sequence of its decimal digits,     *)
(* least-significant digit first, without high-order zeros (<<>> is 0).    *)
(* A std::string of digits is the sequence of its characters as typed,     *)
(* most-significant digit first.  A linked list is the sequence of its     *)
(* nodes' values, a Node* is a position in it and 0 is nullptr.            *)
(***************************************************************************)
EXTENDS Integers, Sequences, FiniteSets, TLC

\* ------------------------------------------------------------ bounds
\* Input strings have 1..SmallDigits or LargeFrom..MaxDigits characters.
SmallDigits == 3
LargeFrom == 18
MaxDigits == 21
\* Nodes the heap can hold for one result list: operator new throws after.
MaxNodes == 5

\* --------------------------------------------------- program constants
\* splitNumberIntoChunks(number, 19)
maxSize == 19
\* 1000000000000000000ULL is a one followed by this many zeros
RadixZeros == 18
\* the character " " that printRecursive writes after each chunk (a digit
\* character is modelled by its digit, so any number above 9 is no digit)
SP == 32

\* ------------------------------------------------- decimal numerals
Min(m, n) == IF m < n THEN m ELSE n
Max(m, n) == IF m < n THEN n ELSE m

Reverse(s) == [i \in 1..Len(s) |-> s[Len(s) + 1 - i]]

Rep(d, n) == [i \in 1..n |-> d]

RECURSIVE Norm(_)
Norm(x) ==
    IF x = <<>> THEN <<>>
    ELSE IF x[Len(x)] = 0 THEN Norm(SubSeq(x, 1, Len(x) - 1))
    ELSE x

Digit(x, i) == IF i <= Len(x) THEN x[i] ELSE 0

RECURSIVE AddFrom(_, _, _, _)
AddFrom(x, y, i, c) ==
    IF i > Len(x) /\ i > Len(y)
    THEN (IF c = 0 THEN <<>> ELSE <<c>>)
    ELSE LET t == Digit(x, i) + Digit(y, i) + c
         IN  <<t % 10>> \o AddFrom(x, y, i + 1, t \div 10)

\* x + y over the naturals
DAdd(x, y) == AddFrom(x, y, 1, 0)

RECURSIVE SubFrom(_, _, _, _)
SubFrom(x, y, i, b) ==
    IF i > Len(x) THEN <<>>
    ELSE LET t == Digit(x, i) - Digit(y, i) - b
         IN  <<(t + 10) % 10>> \o SubFrom(x, y, i + 1, IF t < 0 THEN 1 ELSE 0)

RECURSIVE LessFrom(_, _, _)
LessFrom(x, y, i) ==
    IF i = 0 THEN FALSE
    ELSE IF x[i] # y[i] THEN x[i] < y[i]
    ELSE LessFrom(x, y, i - 1)

\* x < y over the naturals
DLess(x, y) ==
    IF Len(x) # Len(y) THEN Len(x) < Len(y) ELSE LessFrom(x, y, Len(x))

\* x - y over the naturals, for x >= y
DSub(x, y) == Norm(SubFrom(x, y, 1, 0))

\* ------------------------------------------------ 64-bit arithmetic
\* 2^64 = 18446744073709551616 and 2^63 = 9223372036854775808
TwoTo64 == Reverse(<<1,8,4,4,6,7,4,4,0,7,3,7,0,9,5,5,1,6,1,6>>)
TwoTo63 == Reverse(<<9,2,2,3,3,7,2,0,3,6,8,5,4,7,7,5,8,0,8>>)

\* the value a uint64_t keeps of x: x modulo 2^64
RECURSIVE U64(_)
U64(x) == IF DLess(x, TwoTo64) THEN x ELSE U64(DSub(x, TwoTo64))

\* uint64_t + uint64_t and uint64_t - uint64_t
U64Add(x, y) == U64(DAdd(x, y))
U64Sub(x, y) == U64(DSub(DAdd(x, TwoTo64), y))

\* the 64 bits of x read as an int64_t are negative
I64Negative(x) == ~DLess(x, TwoTo63)

\* the literal 1000000000000000000ULL
RadixLiteral == Rep(0, RadixZeros) \o <<1>>

\* sum / 1000000000000000000ULL and sum % 1000000000000000000ULL
DivRadix(x) == SubSeq(x, RadixZeros + 1, Len(x))
ModRadix(x) == Norm(SubSeq(x, 1, Min(RadixZeros, Len(x))))

\* ------------------------------------------------------- linked list
\* head of a list, and node->next
Head0(list) == IF list = <<>> THEN 0 ELSE 1
NextNode(list, node) == IF node < Len(list) THEN node + 1 ELSE 0

\* LargeNumber::addChunk: a new node at the end of the list
addChunk(list, chunk) == Append(list, chunk)

\* std::stoull of a string of at most 19 digits
stoull(chunkStr) == Norm(Reverse(chunkStr))

\* operator<< of a uint64_t: its decimal digits, "0" for zero
ToChars(value) == IF value = <<>> THEN <<0>> ELSE Reverse(value)

RECURSIVE SplitFrom(_, _)
SplitFrom(number, i) ==
    IF i <= 0 THEN <<>>
    ELSE LET start == IF i >= maxSize THEN i - maxSize ELSE 0
             size  == IF i >= maxSize THEN maxSize ELSE i
             chunkStr == SubSeq(number, start + 1, start + size)
         IN  <<stoull(chunkStr)>> \o SplitFrom(number, i - maxSize)

\* the chunks of a number, least-significant chunk first
splitNumberIntoChunks(number) == SplitFrom(number, Len(number))

RECURSIVE AddChunks(_, _, _)
AddChunks(list, chunks, i) ==
    IF i > Len(chunks) THEN list
    ELSE AddChunks(addChunk(list, chunks[i]), chunks, i + 1)

\* main's loop "for (chunk : chunks) ln.addChunk(chunk)" on an empty list
BuildList(chunks) == AddChunks(<<>>, chunks, 1)

RECURSIVE printRecursive(_, _)
printRecursive(list, node) ==
    IF node = 0 THEN <<>>
    ELSE printRecursive(list, NextNode(list, node))
            \o ToChars(list[node]) \o <<SP>>

\* LargeNumber::print: what it writes to cout
print(list) == printRecursive(list, Head0(list))

RECURSIVE PlusLoop(_, _, _, _, _, _)
PlusLoop(a, b, currentA, currentB, carry, result) ==
    IF currentA = 0 /\ currentB = 0 /\ carry = <<>> THEN result
    ELSE LET valueA == IF currentA # 0 THEN a[currentA] ELSE <<>>
             valueB == IF currentB # 0 THEN b[currentB] ELSE <<>>
             sum0   == U64Add(U64Add(valueA, valueB), carry)
         IN  PlusLoop(a, b,
                      IF currentA # 0 THEN NextNode(a, currentA) ELSE 0,
                      IF currentB # 0 THEN NextNode(b, currentB) ELSE 0,
                      DivRadix(sum0),
                      addChunk(result, ModRadix(sum0)))

\* LargeNumber::operator+
Plus(a, b) == PlusLoop(a, b, Head0(a), Head0(b), <<>>, <<>>)

RECURSIVE StrLessFrom(_, _, _)
StrLessFrom(s, t, i) ==
    IF i > Len(t) THEN FALSE
    ELSE IF i > Len(s) THEN TRUE
    ELSE IF s[i] # t[i] THEN s[i] < t[i]
    ELSE StrLessFrom(s, t, i + 1)

\* std::string operator>=: the lexicographic order of the characters
StrGeq(s, t) == ~StrLessFrom(s, t, 1)

\* --------------------------------------------------------- the inputs
Lengths == (1..SmallDigits) \cup (LargeFrom..MaxDigits)

\* digit strings without leading zeros: a leading digit, then one digit
\* repeated
Inputs ==
    { <<h>> \o Rep(f, n - 1) : h \in {1, 5, 9}, f \in {0, 5, 9}, n \in Lengths }

\* ------------------------------------------------------------- p1.cpp
\* bounds of the scheduler's runs
MaxProcs == 3
MaxExec == 4
MaxCpu == 2
MaxCycles == 4

NoNodes == [a \in {} |-> 0]

\* Process(process_id, total_time), allocated at address addr
NewProcess(process_id, total_time, nxt) ==
    [id |-> process_id, exec_time |-> total_time, rem_time |-> total_time,
     next |-> nxt]

\* the heap with one more node
Alloc(h, addr, node) ==
    [a \in DOMAIN h \cup {addr} |-> IF a = addr THEN node ELSE h[a]]

\* the heap after "delete current"
Free(h, addr) == [a \in DOMAIN h \ {addr} |-> h[a]]

\* Process::process followed by the value has_ended() then returns
process(node, cycle_time) ==
    [node EXCEPT !.rem_time =
        IF node.rem_time - cycle_time < 0 THEN 0 ELSE node.rem_time - cycle_time]

has_ended(node) == node.rem_time = 0

\* Scheduler::delProcess, from its do-while loop on: the scheduler's tail,
\* heap and rem after it
RECURSIVE DelFrom(_, _, _, _, _, _)
DelFrom(h, t, r, cur, prev, id) ==
    IF h[cur].id = id
    THEN IF cur = t /\ cur = h[t].next
         THEN [tail |-> 0, heap |-> Free(h, cur), rem |-> r - 1]
         ELSE IF cur = t
         THEN [tail |-> prev,
               heap |-> Free([h EXCEPT ![prev].next = h[t].next], cur),
               rem |-> r - 1]
         ELSE [tail |-> t,
               heap |-> Free([h EXCEPT ![prev].next = h[cur].next], cur),
               rem |-> r - 1]
    ELSE IF h[cur].next # h[t].next
         THEN DelFrom(h, t, r, h[cur].next, cur, id)
         ELSE [tail |-> t, heap |-> h, rem |-> r]

delProcess(h, t, r, id) ==
    IF t = 0 THEN [tail |-> t, heap |-> h, rem |-> r]
    ELSE DelFrom(h, t, r, h[t].next, t, id)

\* "current != start" once the node start points to may have been deleted:
\* the comparison of a live node's address with that of a deleted node.
\* Builds whose pointers are plain addresses find them unequal (no node is
\* allocated during cycle()); the language leaves the use of the invalid
\* pointer to the implementation, so the model admits both answers.
NotStart(h, cur, st) ==
    IF st \in DOMAIN h THEN {cur # st} ELSE BOOLEAN

\* ------------------------------------------------ Miller-Rabin engine
\* (specification sections 4.3 and 4.4; the repository's files hold no
\* primality routine)
\* the subjects and the trial counts of the modelled calls
Subjects == {1, 2, 3, 4, 561}
TrialCounts == {0, 5}

RECURSIVE PowLoop(_, _, _, _)
PowLoop(result, base, exponent, modulus) ==
    IF exponent = 0 THEN result
    ELSE PowLoop(IF exponent % 2 = 1 THEN (result * base) % modulus ELSE result,
                 (base * base) % modulus,
                 exponent \div 2,
                 modulus)

\* power_mod with its result started at the base instead of 1
power_mod_from_base(base, exponent, modulus) ==
    PowLoop(base % modulus, base % modulus, exponent, modulus)

\* right-to-left binary exponentiation: base^exponent mod modulus
power_mod(base, exponent, modulus) ==
    PowLoop(1, base % modulus, exponent, modulus)

\* m = 2^TwoPart(m) * OddPart(m), by repeated halving
RECURSIVE TwoPart(_)
TwoPart(m) == IF m > 0 /\ m % 2 = 0 THEN 1 + TwoPart(m \div 2) ELSE 0

RECURSIVE OddPart(_)
OddPart(m) == IF m > 0 /\ m % 2 = 0 THEN OddPart(m \div 2) ELSE m

\* ------------------------------------------------------------- p2.cpp
VARIABLES pc, largeNumber1, largeNumber2, ln1, ln2, shown1, shown2, sum,
          minuend, subtrahend, currentA, currentB, borrow, difference

bigVars == <<pc, largeNumber1, largeNumber2, ln1, ln2, shown1, shown2, sum,
             minuend, subtrahend, currentA, currentB, borrow, difference>>


\* heap: the Process nodes not yet deleted, by address; a Process* is an
\* address and 0 is nullptr.  The id string 'P' + to_string(total) is
\* modelled by the number total.  served and atStart are history variables:
\* the slices each process got in the current call of cycle(), and the
\* rem_time of each process that was in the list when the call began.
VARIABLES cpu_time, total, rem, cycles, tail, heap, spc, current, start,
          served, atStart

schedVars == <<cpu_time, total, rem, cycles, tail, heap, spc, current, start,
               served, atStart>>

\* one call is_probably_prime(mrN, mrK): n - 1 = 2^mrS * mrD, the trials
\* begun, the base and the x of the current trial, the squarings done in it
VARIABLES mrPc, mrN, mrK, mrS, mrD, mrTrial, mrA, mrX, mrRound, verdict

mrVars == <<mrPc, mrN, mrK, mrS, mrD, mrTrial, mrA, mrX, mrRound, verdict>>

vars == <<bigVars, schedVars, mrVars>>

BigInit ==
    /\ pc = "read"
    /\ largeNumber1 \in Inputs
    /\ largeNumber2 \in Inputs
    /\ ln1 = <<>>
    /\ ln2 = <<>>
    /\ shown1 = <<>>
    /\ shown2 = <<>>
    /\ sum = <<>>
    /\ minuend = <<>>
    /\ subtrahend = <<>>
    /\ currentA = 0
    /\ currentB = 0
    /\ borrow = 0
    /\ difference = <<>>

\* main: split both strings and build both lists
Build ==
    /\ pc = "read"
    /\ ln1' = BuildList(splitNumberIntoChunks(largeNumber1))
    /\ ln2' = BuildList(splitNumberIntoChunks(largeNumber2))
    /\ pc' = "built"
    /\ UNCHANGED <<largeNumber1, largeNumber2, shown1, shown2, sum, minuend,
                   subtrahend, currentA, currentB, borrow, difference>>
    /\ UNCHANGED <<schedVars, mrVars>>

\* main: print both stored numbers
Show ==
    /\ pc = "built"
    /\ shown1' = print(ln1)
    /\ shown2' = print(ln2)
    /\ pc' = "shown"
    /\ UNCHANGED <<largeNumber1, largeNumber2, ln1, ln2, sum, minuend,
                   subtrahend, currentA, currentB, borrow, difference>>
    /\ UNCHANGED <<schedVars, mrVars>>

\* main: sum = ln1 + ln2
Add ==
    /\ pc = "shown"
    /\ sum' = Plus(ln1, ln2)
    /\ pc' = "added"
    /\ UNCHANGED <<largeNumber1, largeNumber2, ln1, ln2, shown1, shown2,
                   minuend, subtrahend, currentA, currentB, borrow, difference>>
    /\ UNCHANGED <<schedVars, mrVars>>

\* main: the choice of the operands, and the entry of operator-
SubCall ==
    /\ pc = "added"
    /\ LET a == IF StrGeq(largeNumber1, largeNumber2) THEN ln1 ELSE ln2
           b == IF StrGeq(largeNumber1, largeNumber2) THEN ln2 ELSE ln1
       IN  /\ minuend' = a
           /\ subtrahend' = b
           /\ currentA' = Head0(a)
           /\ currentB' = Head0(b)
    /\ borrow' = 0
    /\ difference' = <<>>
    /\ pc' = "sub"
    /\ UNCHANGED <<largeNumber1, largeNumber2, ln1, ln2, shown1, shown2, sum>>
    /\ UNCHANGED <<schedVars, mrVars>>

SubLoopCond == currentA # 0 \/ currentB # 0 \/ borrow # 0

\* operator-: one iteration of its loop
SubStep ==
    /\ pc = "sub"
    /\ SubLoopCond
    /\ Len(difference) < MaxNodes
    /\ LET valueA == IF currentA # 0 THEN minuend[currentA] ELSE <<>>
           valueB == IF currentB # 0 THEN subtrahend[currentB] ELSE <<>>
           diff0  == U64Sub(U64Sub(valueA, valueB),
                            IF borrow = 1 THEN <<1>> ELSE <<>>)
           diff   == IF I64Negative(diff0) THEN U64Add(diff0, RadixLiteral)
                     ELSE diff0
       IN  /\ borrow' = IF I64Negative(diff0) THEN 1 ELSE 0
           /\ difference' = addChunk(difference, diff)
    /\ currentA' = IF currentA # 0 THEN NextNode(minuend, currentA) ELSE 0
    /\ currentB' = IF currentB # 0 THEN NextNode(subtrahend, currentB) ELSE 0
    /\ UNCHANGED <<pc, largeNumber1, largeNumber2, ln1, ln2, shown1, shown2,
                   sum, minuend, subtrahend>>
    /\ UNCHANGED <<schedVars, mrVars>>

\* operator-: the loop goes on and addChunk's "new Node" finds no memory
SubNoMemory ==
    /\ pc = "sub"
    /\ SubLoopCond
    /\ Len(difference) >= MaxNodes
    /\ pc' = "bad_alloc"
    /\ UNCHANGED <<largeNumber1, largeNumber2, ln1, ln2, shown1, shown2, sum,
                   minuend, subtrahend, currentA, currentB, borrow, difference>>
    /\ UNCHANGED <<schedVars, mrVars>>

\* operator-: the loop ends, the result is returned and main prints it
SubReturn ==
    /\ pc = "sub"
    /\ ~SubLoopCond
    /\ pc' = "done"
    /\ UNCHANGED <<largeNumber1, largeNumber2, ln1, ln2, shown1, shown2, sum,
                   minuend, subtrahend, currentA, currentB, borrow, difference>>
    /\ UNCHANGED <<schedVars, mrVars>>


\* p2.cpp not running (the other programs' specifications)
BigOff ==
    /\ pc = "off"
    /\ largeNumber1 = <<>>
    /\ largeNumber2 = <<>>
    /\ ln1 = <<>>
    /\ ln2 = <<>>
    /\ shown1 = <<>>
    /\ shown2 = <<>>
    /\ sum = <<>>
    /\ minuend = <<>>
    /\ subtrahend = <<>>
    /\ currentA = 0
    /\ currentB = 0
    /\ borrow = 0
    /\ difference = <<>>

\* ------------------------------------------------------------- p1.cpp
\* Scheduler(Cpu_time)
SchedInit ==
    /\ cpu_time \in 1..MaxCpu
    /\ total = 0
    /\ rem = 0
    /\ cycles = 0
    /\ tail = 0
    /\ heap = NoNodes
    /\ spc = "idle"
    /\ current = 0
    /\ start = 0
    /\ served = [a \in 1..MaxProcs |-> 0]
    /\ atStart = NoNodes

SchedOff ==
    /\ cpu_time = 0
    /\ total = 0
    /\ rem = 0
    /\ cycles = 0
    /\ tail = 0
    /\ heap = NoNodes
    /\ spc = "off"
    /\ current = 0
    /\ start = 0
    /\ served = [a \in 1..MaxProcs |-> 0]
    /\ atStart = NoNodes

\* Scheduler::addProcess
addProcess(exec_time) ==
    /\ spc = "idle"
    /\ total < MaxProcs
    /\ total' = total + 1
    /\ rem' = rem + 1
    /\ LET new_node == total + 1
       IN  /\ IF tail = 0
              THEN heap' = Alloc(heap, new_node,
                                 NewProcess(total + 1, exec_time, new_node))
              ELSE heap' = Alloc([heap EXCEPT ![tail].next = new_node],
                                 new_node,
                                 NewProcess(total + 1, exec_time, heap[tail].next))
           /\ tail' = new_node
    /\ UNCHANGED <<cpu_time, cycles, spc, current, start, served, atStart>>
    /\ UNCHANGED <<bigVars, mrVars>>

\* Scheduler::cycle on an empty list: a message, and nothing changes
CycleEmpty ==
    /\ spc = "idle"
    /\ tail = 0
    /\ UNCHANGED <<schedVars, bigVars, mrVars>>

\* Scheduler::cycle up to its loop
CycleBegin ==
    /\ spc = "idle"
    /\ tail # 0
    /\ cycles < MaxCycles
    /\ cycles' = cycles + 1
    /\ current' = heap[tail].next
    /\ start' = heap[tail].next
    /\ spc' = "loop"
    /\ served' = [a \in 1..MaxProcs |-> 0]
    /\ atStart' = [a \in DOMAIN heap |-> heap[a].rem_time]
    /\ UNCHANGED <<cpu_time, total, rem, tail, heap>>
    /\ UNCHANGED <<bigVars, mrVars>>

\* Scheduler::cycle: one iteration of its do-while loop, with the loop's
\* condition and, when it fails, the return
CycleStep ==
    /\ spc = "loop"
    /\ LET h1 == [heap EXCEPT ![current] = process(heap[current], cpu_time)]
           ended == has_ended(h1[current])
           nxt == h1[current].next
           d == IF ended THEN delProcess(h1, tail, rem, h1[current].id)
                ELSE [tail |-> tail, heap |-> h1, rem |-> rem]
       IN  /\ served' = [served EXCEPT ![current] = @ + 1]
           /\ heap' = d.heap
           /\ tail' = d.tail
           /\ rem' = d.rem
           /\ \E goOn \in (IF d.tail = 0 THEN {FALSE}
                           ELSE NotStart(d.heap, nxt, start)) :
                 IF goOn
                 THEN /\ current' = nxt
                      /\ UNCHANGED <<spc, start>>
                 ELSE /\ spc' = "idle"
                      /\ current' = 0
                      /\ start' = 0
    /\ UNCHANGED <<cpu_time, total, cycles, atStart>>
    /\ UNCHANGED <<bigVars, mrVars>>

\* ------------------------------------------------ Miller-Rabin engine
MRInit ==
    /\ mrPc = "start"
    /\ mrN \in Subjects
    /\ mrK \in TrialCounts
    /\ mrS = 0
    /\ mrD = 0
    /\ mrTrial = 0
    /\ mrA = 0
    /\ mrX = 0
    /\ mrRound = 0
    /\ verdict = "none"

MROff ==
    /\ mrPc = "off"
    /\ mrN = 0
    /\ mrK = 0
    /\ mrS = 0
    /\ mrD = 0
    /\ mrTrial = 0
    /\ mrA = 0
    /\ mrX = 0
    /\ mrRound = 0
    /\ verdict = "none"

\* k < 1 signals InvalidConfiguration
MRReject ==
    /\ mrPc = "start"
    /\ mrK < 1
    /\ verdict' = "InvalidConfiguration"
    /\ mrPc' = "done"
    /\ UNCHANGED <<mrN, mrK, mrS, mrD, mrTrial, mrA, mrX, mrRound>>
    /\ UNCHANGED <<bigVars, schedVars>>

\* the trivial cases: 2 and 3 are prime; n <= 1 and even n are composite
MRTrivial ==
    /\ mrPc = "start"
    /\ mrK >= 1
    /\ mrN <= 3 \/ mrN % 2 = 0
    /\ verdict' = IF mrN = 2 \/ mrN = 3 THEN "Prime" ELSE "Composite"
    /\ mrPc' = "done"
    /\ UNCHANGED <<mrN, mrK, mrS, mrD, mrTrial, mrA, mrX, mrRound>>
    /\ UNCHANGED <<bigVars, schedVars>>

\* factor n - 1 = 2^s * d with d odd
MRFactor ==
    /\ mrPc = "start"
    /\ mrK >= 1
    /\ mrN > 3 /\ mrN % 2 = 1
    /\ mrS' = TwoPart(mrN - 1)
    /\ mrD' = OddPart(mrN - 1)
    /\ mrPc' = "trial"
    /\ UNCHANGED <<mrN, mrK, mrTrial, mrA, mrX, mrRound, verdict>>
    /\ UNCHANGED <<bigVars, schedVars>>

\* one trial, steps 1 to 3: draw a base in [2, n-2], x = a^d mod n; the
\* trial passes at once when x is 1 or n-1
MRTrial ==
    /\ mrPc = "trial"
    /\ mrTrial < mrK
    /\ \E a \in 2..(mrN - 2) :
          /\ mrA' = a
          /\ mrX' = power_mod(a, mrD, mrN)
    /\ mrTrial' = mrTrial + 1
    /\ mrRound' = 0
    /\ mrPc' = IF mrX' = 1 \/ mrX' = mrN - 1 THEN "trial" ELSE "square"
    /\ UNCHANGED <<mrN, mrK, mrS, mrD, verdict>>
    /\ UNCHANGED <<bigVars, schedVars>>

\* step 4: one of the up to s-1 squarings; reaching n-1 passes the trial
MRSquare ==
    /\ mrPc = "square"
    /\ mrRound < mrS - 1
    /\ mrX' = (mrX * mrX) % mrN
    /\ mrRound' = mrRound + 1
    /\ mrPc' = IF mrX' = mrN - 1 THEN "trial" ELSE "square"
    /\ UNCHANGED <<mrN, mrK, mrS, mrD, mrTrial, mrA, verdict>>
    /\ UNCHANGED <<bigVars, schedVars>>

\* step 5: the squarings are exhausted: composite, and no further trial
MRFail ==
    /\ mrPc = "square"
    /\ mrRound >= mrS - 1
    /\ verdict' = "Composite"
    /\ mrPc' = "done"
    /\ UNCHANGED <<mrN, mrK, mrS, mrD, mrTrial, mrA, mrX, mrRound>>
    /\ UNCHANGED <<bigVars, schedVars>>

\* all k trials passed
MRAccept ==
    /\ mrPc = "trial"
    /\ mrTrial >= mrK
    /\ verdict' = "ProbablyPrime"
    /\ mrPc' = "done"
    /\ UNCHANGED <<mrN, mrK, mrS, mrD, mrTrial, mrA, mrX, mrRound>>
    /\ UNCHANGED <<bigVars, schedVars>>

\* ------------------------------------------------- specifications
\* p2.cpp's main on every pair of inputs
Init == BigInit /\ SchedOff /\ MROff

Next ==
    \/ Build
    \/ Show
    \/ Add
    \/ SubCall
    \/ SubStep
    \/ SubNoMemory
    \/ SubReturn

Spec == Init /\ [][Next]_vars

\* p1.cpp's Scheduler under any calls of addProcess and cycle
InitSched == BigOff /\ SchedInit /\ MROff

NextSched ==
    \/ \E exec_time \in 1..MaxExec : addProcess(exec_time)
    \/ CycleEmpty
    \/ CycleBegin
    \/ CycleStep

SpecSched == InitSched /\ [][NextSched]_vars

\* one call of is_probably_prime
InitMR == BigOff /\ SchedOff /\ MRInit

NextMR ==
    \/ MRReject
    \/ MRTrivial
    \/ MRFactor
    \/ MRTrial
    \/ MRSquare
    \/ MRFail
    \/ MRAccept

SpecMR == InitMR /\ [][NextMR]_vars

\* ------------------------------------------------------------ claims
\* The notions of the specification the claims are stated in.

\* the value of a limb sequence, least-significant limb first, in radix
\* R = 10^19 (19 decimal digits per limb): the sum of limb[i] * R^i
ShiftLimb(x) == IF x = <<>> THEN <<>> ELSE Rep(0, maxSize) \o x

RECURSIVE ValueFrom(_, _)
ValueFrom(limbs, i) ==
    IF i > Len(limbs) THEN <<>>
    ELSE DAdd(limbs[i], ShiftLimb(ValueFrom(limbs, i + 1)))

Value(limbs) == ValueFrom(limbs, 1)

\* the number a digit string denotes
Number(str) == Norm(Reverse(str))

\* a limb lies in [0, R): it has at most 19 digits
InRadix(limb) == Len(limb) <= maxSize

\* no most-significant zero limb, but for zero as the codec stores it (one
\* zero limb) or as the empty sequence
Normalized(limbs) ==
    limbs = <<>> \/ Len(limbs) = 1 \/ limbs[Len(limbs)] # <<>>

\* operator- has been entered with these operands
InSubtract == pc \in {"sub", "done", "bad_alloc"}
Sufficient == ~DLess(Value(minuend), Value(subtrahend))

\* C1: once main has computed sum = ln1 + ln2, the value of sum is the
\* value of ln1 plus the value of ln2.
C1_AddValue ==
    pc \in {"added", "sub", "done", "bad_alloc"}
        => Value(sum) = DAdd(Value(ln1), Value(ln2))

\* C2: when operator- returns for operands with value(a) >= value(b), the
\* value of the returned list is value(a) - value(b).
C2_SubValue ==
    (pc = "done" /\ Sufficient)
        => Value(difference) = DSub(Value(minuend), Value(subtrahend))

\* C3: entered with value(a) < value(b), operator- ends in a NegativeResult
\* error: it neither returns a limb sequence nor runs until memory is
\* exhausted.
C3_NegativeResult ==
    (InSubtract /\ ~Sufficient) => pc \notin {"done", "bad_alloc"}

\* the digit characters of a text, its blanks left out
RECURSIVE DigitsOf(_)
DigitsOf(text) ==
    IF text = <<>> THEN <<>>
    ELSE IF Head(text) = SP THEN DigitsOf(Tail(text))
    ELSE <<Head(text)>> \o DigitsOf(Tail(text))

\* C4: what print writes for a parsed number is the string that was parsed,
\* for both numbers main prints (read in the claim's favour: the blank that
\* print writes after each chunk is not held against it).
C4_RoundTrip ==
    pc \notin {"read", "built"}
        => /\ DigitsOf(shown1) = largeNumber1
           /\ DigitsOf(shown2) = largeNumber2

\* C5: every limb of every list (the parsed numbers, the sum, the
\* difference as far as it is built) lies in [0, R), R = 10^19.
C5_LimbRange ==
    \A list \in {ln1, ln2, sum, difference} :
        \A i \in 1..Len(list) : InRadix(list[i])

\* C6: the list operator+ returns is normalized, and so is the list
\* operator- returns for value(a) >= value(b).
C6_Normalized ==
    /\ pc \in {"added", "sub", "done", "bad_alloc"} => Normalized(sum)
    /\ (pc = "done" /\ Sufficient) => Normalized(difference)

\* C8: for value(a) >= value(b) the loop of operator- never runs more than
\* max(len(a), len(b)) iterations, and it returns after exactly that many
\* with borrow = 0.
C8_SubTerminates ==
    (InSubtract /\ Sufficient) =>
        /\ Len(difference) <= Max(Len(minuend), Len(subtrahend))
        /\ pc # "bad_alloc"
        /\ pc = "done" =>
              /\ Len(difference) = Max(Len(minuend), Len(subtrahend))
              /\ borrow = 0

\* C9: main calls operator- with the list of the numerically larger-or-equal
\* string on the left and the other on the right.
C9_OperandOrder ==
    InSubtract =>
        \/ /\ minuend = ln1 /\ subtrahend = ln2
           /\ ~DLess(Number(largeNumber1), Number(largeNumber2))
        \/ /\ minuend = ln2 /\ subtrahend = ln1
           /\ ~DLess(Number(largeNumber2), Number(largeNumber1))

\* C10: a call of cycle() gives no process more than one time slice, and
\* when it has returned every process that was in the list at its start has
\* had exactly one: its rem_time is down by min(rem_time, cpu_time), and it
\* is deleted exactly when that left nothing.
C10_OneSliceEach ==
    /\ \A p \in DOMAIN atStart : served[p] <= 1
    /\ spc = "idle" =>
          \A p \in DOMAIN atStart :
              /\ served[p] = 1
              /\ IF atStart[p] <= cpu_time
                 THEN p \notin DOMAIN heap
                 ELSE /\ p \in DOMAIN heap
                      /\ heap[p].rem_time = atStart[p] - cpu_time

\* the bases in [2, 559] on which 561 passes a trial
StrongLiars561 == {50, 101, 103, 256, 305, 458, 460, 511}

\* C7 as stated: is_probably_prime(561, 5) ends Composite whatever bases
\* are drawn.
C7_AlwaysComposite ==
    (mrN = 561 /\ mrK = 5 /\ mrPc = "done") => verdict = "Composite"

\* C7 as amended: in is_probably_prime(561, 5) a trial passes exactly when
\* its base is one of the eight strong liars of 561, so the call ends
\* Composite at the first base drawn outside them, and ProbablyPrime only
\* after five bases drawn among them.
C7_CompositeUnlessLiars ==
    (mrN = 561 /\ mrK = 5) =>
        /\ (mrPc = "trial" /\ mrTrial > 0) => mrA \in StrongLiars561
        /\ mrPc = "square" => mrA \notin StrongLiars561
        /\ verdict = "Composite" => mrA \notin StrongLiars561
        /\ verdict = "ProbablyPrime" =>
              (mrTrial = 5 /\ mrA \in StrongLiars561)
        /\ mrPc = "done" => verdict \in {"Composite", "ProbablyPrime"}

\* the fifth trial of is_probably_prime(561, 5), after four that passed,
\* ends Composite
C7_CompositeAtFifthTrial ==
    mrN = 561 /\ mrK = 5 /\ mrTrial = 5 /\ verdict = "Composite"

====
